---- MODULE Spec2Model ----
(***************************************************************************)
(* Model of the liliumvm code generator (src/compiler/codegen/mod.rs).     *)
(*                                                                         *)
(* generate() is a recursive descent over the AST.  The model is its       *)
(* defunctionalised form: `stack` holds the continuation of the walk as a  *)
(* sequence of frames, one frame per pending segment of a handler (the     *)
(* code between two recursive calls).  Every action pops the top frame and *)
(* runs that segment to its next recursive call.                           *)
(*                                                                         *)
(* Code positions are 0-based as in the source; code[p + 1] is the         *)
(* instruction at position p.                                              *)
(***************************************************************************)
EXTENDS Integers, Sequences, FiniteSets, TLC

VARIABLES
    input,        \* the `expressions` argument of generate
    code,         \* module.code
    constants,    \* module.constants, run-length encoded: a sequence of
                  \* runs [value, count], adjacent runs of different values
    functions,    \* module.functions
    entry_point,  \* module.entry_point
    func,         \* func: HashMap<String, u32>
    stack,        \* pending segments of the recursive walk, top first
    status,       \* "run", "done" (module returned) or "panic"
    calls,        \* history: one record per call lowered: where its
                  \* instructions start (at), its base, its argument count,
                  \* whether it stands in tail position (gtail), and what
                  \* the callee's definition in force recorded (def)
    conds,        \* history: one record per conditional lowered: the
                  \* positions of its JTF (p1) and JMF (p2) and the code
                  \* length when its true branch was complete (end)
    defs          \* history: name -> the entry address and the parameter
                  \* registers its latest definition recorded

vars == <<input, code, constants, functions, entry_point, func, stack,
          status, calls, conds, defs>>

-----------------------------------------------------------------------------
(* Bounds of the model *)

\* nesting depth of the syntactic contexts wrapped around a payload
MaxNest == 2
\* length of a top-level sequence of integer literals
MaxLits == 2
\* length of a top-level sequence of function definitions
MaxDefs == 3
\* length of a branch of a conditional over literals
MaxBranch == 2
\* out-of-range literals still to lower when the pool is nearly full
MaxPoolLits == 3

-----------------------------------------------------------------------------
(* Program constants *)

\* reg::VAL, the return-value register (module `common`)
VAL == 0
\* u16::MAX, the largest pool index u16::try_from accepts
U16_MAX == 65535
I16_MIN == -32768
I16_MAX == 32767

-----------------------------------------------------------------------------
(* The AST (parser::Expression), one record shape for all nine variants *)

Node(kind, val, name, names, a, b, c) ==
    [kind |-> kind, val |-> val, name |-> name, names |-> names,
     a |-> a, b |-> b, c |-> c]

Integer(i) == Node("Integer", i, "", <<>>, <<>>, <<>>, <<>>)
BinaryOp(op, left, right) ==
    Node("BinaryOp", 0, op, <<>>, <<left>>, <<right>>, <<>>)
UnaryOp(op, left) == Node("UnaryOp", 0, op, <<>>, <<left>>, <<>>, <<>>)
NullaryOp(op) == Node("NullaryOp", 0, op, <<>>, <<>>, <<>>, <<>>)
\* a call: name, argument expressions
Function(name, param) == Node("Function", 0, name, <<>>, param, <<>>, <<>>)
FunctionDefinition(name, param, body) ==
    Node("FunctionDefinition", 0, name, param, body, <<>>, <<>>)
\* let: the (name, expression) pairs as two parallel sequences, then the body
VariableAssignment(names, inits, body) ==
    Node("VariableAssignment", 0, "", names, inits, body, <<>>)
Variable(name) == Node("Variable", 0, name, <<>>, <<>>, <<>>, <<>>)
Conditional(condition, yes, no) ==
    Node("Conditional", 0, "", <<>>, <<condition>>, yes, no)

-----------------------------------------------------------------------------
(* Instructions and byte packing *)

Instruction(opcode, target, left, right) ==
    [opcode |-> opcode, target |-> target, left |-> left, right |-> right]

\* `x as u8` for a non-negative or two's-complement x
U8(x) == x % 256
\* `(x >> n) as u8`; >> on a signed value is arithmetic, i.e. floor division
Shr8(x) == (x \div 256) % 256
Shr16(x) == (x \div 65536) % 256

\* the range check with both bounds exclusive
FitsI16Exclusive(value) == value > I16_MIN /\ value < I16_MAX

\* i16::try_from(value) is Ok
FitsI16(value) == value >= I16_MIN /\ value <= I16_MAX

\* the capacity check counting entries instead of indices
FitsU16Exclusive(len) == len < U16_MAX

\* u16::try_from(len) is Ok
FitsU16(len) == len <= U16_MAX


-----------------------------------------------------------------------------
(* Maps (HashMap) *)

EmptyMap == [n \in {} |-> 0]

\* HashMap::insert
Insert(m, k, v) == [x \in (DOMAIN m) \cup {k} |-> IF x = k THEN v ELSE m[x]]

\* inserting keys[1..n] in order, keys[i] |-> first + i - 1 (a later
\* duplicate key replaces an earlier one)
RECURSIVE InsertAll(_, _, _, _)
InsertAll(m, keys, first, n) ==
    IF n = 0 THEN m
    ELSE Insert(InsertAll(m, keys, first, n - 1), keys[n], first + n - 1)

-----------------------------------------------------------------------------
(* The constant pool (Vec<i64>), run-length encoded *)

\* constants.len()
RECURSIVE PoolLen(_)
PoolLen(p) ==
    IF p = <<>> THEN 0 ELSE p[Len(p)].count + PoolLen(SubSeq(p, 1, Len(p) - 1))

\* constants.push(value)
PoolPush(p, value) ==
    IF p # <<>> /\ p[Len(p)].value = value
    THEN [p EXCEPT ![Len(p)].count = @ + 1]
    ELSE Append(p, [value |-> value, count |-> 1])

\* the pool as the plain sequence of its entries
RECURSIVE PoolSeq(_)
PoolSeq(p) ==
    IF p = <<>> THEN <<>>
    ELSE PoolSeq(SubSeq(p, 1, Len(p) - 1))
            \o [i \in 1..p[Len(p)].count |-> p[Len(p)].value]

-----------------------------------------------------------------------------
(* expr_integer: a function of the literal, the base and the module *)

expr_integer(value, base, mcode, mconstants) ==
    IF FitsI16(value)
    THEN [panic |-> FALSE,
          code |-> Append(mcode,
                          Instruction("LD", base, U8(value), Shr8(value))),
          constants |-> mconstants]
    ELSE LET len == PoolLen(mconstants) IN
         IF ~FitsU16(len)
         THEN [panic |-> TRUE, code |-> mcode, constants |-> mconstants]
         ELSE [panic |-> FALSE,
               code |-> Append(mcode,
                               Instruction("LDB", base, U8(len), Shr8(len))),
               constants |-> PoolPush(mconstants, value)]

-----------------------------------------------------------------------------
(* Operator tables *)

BinaryOpcode(op) ==
    CASE op = "+" -> "ADD"
      [] op = "-" -> "SUB"
      [] op = "*" -> "MUL"
      [] op = "/" -> "DIV"
      [] op = "&" -> "AND"
      [] op = "|" -> "OR"
      [] op = "==" -> "EQ"
      [] op = "<" -> "LT"
      [] op = "<=" -> "LE"
      [] op = ">" -> "GT"
      [] op = ">=" -> "GE"
      [] op = "!=" -> "NEQ"
      [] OTHER -> "invalid"

UnaryOpcode(op) ==
    CASE op = "~" -> "NOT"
      [] op = "write" -> "WRI"
      [] OTHER -> "invalid"

NullaryOpcode(op) ==
    CASE op = "read" -> "RDI"
      [] OTHER -> "invalid"

-----------------------------------------------------------------------------
(* Frames: the pending segments of the walk *)

OptimizationInfo(func_name, tail) == [func_name |-> func_name, tail |-> tail]

\* a pending generate_expression(expr, base, func, vars, module, oinfo);
\* gtail is history: whether expr stands in tail position as the
\* specification defines it (the code reads only oinfo.tail)
GenFrame(expr, base, vs, oinfo, gtail) ==
    [pc |-> "gen", expr |-> expr, base |-> base, vars |-> vs,
     oinfo |-> oinfo, gtail |-> gtail]

\* `for expr in exprs { generate_expression(expr, base, .., vars, .., oinfo) }`
\* glast is the tail position of the last element; no other element is in
\* tail position
GenEach(exprs, base, vs, oinfo, glast) ==
    [i \in 1..Len(exprs) |->
        GenFrame(exprs[i], base, vs, oinfo, (i = Len(exprs)) /\ glast)]

\* the definitions, resp. the other nodes, of a top-level sequence, in order
RECURSIVE Filter(_, _)
Filter(exprs, wantDefs) ==
    IF exprs = <<>> THEN <<>>
    ELSE LET isDef == Head(exprs).kind = "FunctionDefinition" IN
         (IF isDef = wantDefs THEN <<Head(exprs)>> ELSE <<>>)
            \o Filter(Tail(exprs), wantDefs)

Running == status = "run" /\ stack # <<>>
Top == stack[1]
IsGen(kind) == Running /\ Top.pc = "gen" /\ Top.expr.kind = kind

\* the distance to the unconditional branch, not past it
JtfOffsetNoSkip(len, jmp_index) == len - jmp_index

\* offset patched into the conditional branch at jmp_index
JtfOffset(len, jmp_index) == len - jmp_index + 1
\* offset patched into the unconditional branch at jmp_index
JmfOffset(len, jmp_index) == len - jmp_index

\* a JTF patch that, like the JMF patch, writes all three operand bytes
PatchJtfThreeBytes(mcode, jmp_index, offset) ==
    [mcode EXCEPT ![jmp_index + 1].target = U8(offset),
                  ![jmp_index + 1].left = Shr8(offset),
                  ![jmp_index + 1].right = Shr16(offset)]

\* `let jmp = &mut module.code[jmp_index]; jmp.left = offset as u8;
\* jmp.right = (offset >> 8) as u8` (sequences here are 1-based)
PatchJtf(mcode, jmp_index, offset) ==
    [mcode EXCEPT ![jmp_index + 1].left = U8(offset),
                  ![jmp_index + 1].right = Shr8(offset)]

\* `jmp.target = offset as u8; jmp.left = (offset >> 8) as u8;
\* jmp.right = (offset >> 16) as u8`
PatchJmf(mcode, jmp_index, offset) ==
    [mcode EXCEPT ![jmp_index + 1].target = U8(offset),
                  ![jmp_index + 1].left = Shr8(offset),
                  ![jmp_index + 1].right = Shr16(offset)]
\* the index the next function definition takes
NextIndex(f) == Cardinality(DOMAIN f)
\* the register the k-th parameter transfer writes (tmp_param after k steps)
ParamTarget(k) == VAL + k
\* the register the let body is generated into, after n bindings (tmp_base)
BodyBase(base, n) == base + n

-----------------------------------------------------------------------------
(* The actions: one per segment of a handler *)

Panic ==
    /\ status' = "panic"
    /\ UNCHANGED <<input, code, constants, functions, entry_point, func,
                   stack, calls, conds, defs>>

\* generate_expression, Integer => expr_integer
GenInteger ==
    /\ IsGen("Integer")
    /\ LET r == expr_integer(Top.expr.val, Top.base, code, constants) IN
       IF r.panic THEN Panic
       ELSE /\ code' = r.code
            /\ constants' = r.constants
            /\ stack' = Tail(stack)
            /\ UNCHANGED <<input, functions, entry_point, func, status,
                           calls, conds, defs>>

\* generate_expression, BinaryOp => expr_binary up to the operand walks
GenBinaryOp ==
    /\ IsGen("BinaryOp")
    /\ LET f == Top
           optimizations == OptimizationInfo(f.oinfo.func_name, FALSE)
       IN stack' = <<GenFrame(f.expr.a[1], f.base + 1, f.vars,
                              optimizations, FALSE),
                     GenFrame(f.expr.b[1], f.base + 2, f.vars,
                              optimizations, FALSE),
                     [pc |-> "binary", op |-> f.expr.name, base |-> f.base]>>
                   \o Tail(stack)
    /\ UNCHANGED <<input, code, constants, functions, entry_point, func,
                   status, calls, conds, defs>>

\* expr_binary after both operands: the operator match and the push
BinaryFinish ==
    /\ Running /\ Top.pc = "binary"
    /\ IF BinaryOpcode(Top.op) = "invalid" THEN Panic
       ELSE /\ code' = Append(code, Instruction(BinaryOpcode(Top.op),
                                     Top.base, Top.base + 1, Top.base + 2))
            /\ stack' = Tail(stack)
            /\ UNCHANGED <<input, constants, functions, entry_point, func,
                           status, calls, conds, defs>>

\* generate_expression, UnaryOp => expr_unary up to the operand walk
GenUnaryOp ==
    /\ IsGen("UnaryOp")
    /\ LET f == Top
           optimizations == OptimizationInfo(f.oinfo.func_name, FALSE)
       IN stack' = <<GenFrame(f.expr.a[1], f.base + 1, f.vars,
                              optimizations, FALSE),
                     [pc |-> "unary", op |-> f.expr.name, base |-> f.base]>>
                   \o Tail(stack)
    /\ UNCHANGED <<input, code, constants, functions, entry_point, func,
                   status, calls, conds, defs>>

\* expr_unary after the operand
UnaryFinish ==
    /\ Running /\ Top.pc = "unary"
    /\ IF UnaryOpcode(Top.op) = "invalid" THEN Panic
       ELSE /\ code' = Append(code, Instruction(UnaryOpcode(Top.op),
                                     Top.base, Top.base + 1, 0))
            /\ stack' = Tail(stack)
            /\ UNCHANGED <<input, constants, functions, entry_point, func,
                           status, calls, conds, defs>>

\* generate_expression, NullaryOp => expr_nullary
GenNullaryOp ==
    /\ IsGen("NullaryOp")
    /\ IF NullaryOpcode(Top.expr.name) = "invalid" THEN Panic
       ELSE /\ code' = Append(code, Instruction(NullaryOpcode(Top.expr.name),
                                     Top.base, 0, 0))
            /\ stack' = Tail(stack)
            /\ UNCHANGED <<input, constants, functions, entry_point, func,
                           status, calls, conds, defs>>

\* generate_expression, Variable => expr_variable
GenVariable ==
    /\ IsGen("Variable")
    /\ IF Top.expr.name \notin DOMAIN Top.vars THEN Panic
       ELSE /\ code' = Append(code, Instruction("MOV", Top.base,
                                     Top.vars[Top.expr.name], 0))
            /\ stack' = Tail(stack)
            /\ UNCHANGED <<input, constants, functions, entry_point, func,
                           status, calls, conds, defs>>

\* generate_expression, Function => expr_call up to the argument walks
GenFunction ==
    /\ IsGen("Function")
    /\ LET f == Top
           name == f.expr.name
           param == f.expr.a
           param_oinfo == OptimizationInfo(f.oinfo.func_name, FALSE)
       IN IF name \notin DOMAIN func THEN Panic
          ELSE /\ stack' =
                    [k \in 1..Len(param) |->
                        GenFrame(param[k], f.base + k, f.vars, param_oinfo,
                                 FALSE)]
                    \o <<[pc |-> "call", name |-> name, index |-> func[name],
                          base |-> f.base, nparam |-> Len(param),
                          tail |-> f.oinfo.tail, gtail |-> f.gtail,
                          def |-> defs[name]]>>
                    \o Tail(stack)
               /\ UNCHANGED <<input, code, constants, functions, entry_point,
                              func, status, calls, conds, defs>>

\* the parameter transfers expr_call collects in tmp_instructions
Transfers(tail, base, nparam) ==
    [k \in 1..nparam |->
        IF tail THEN Instruction("MOV", ParamTarget(k), base + k, 0)
        ELSE Instruction("MVO", ParamTarget(k), base + k, 255)]

\* expr_call after the arguments: the transfers, then JMP or CAL and LDR
CallFinish ==
    /\ Running /\ Top.pc = "call"
    /\ LET f == Top
           index == f.index
       IN /\ code' = code \o Transfers(f.tail, f.base, f.nparam) \o
                (IF f.tail
                 THEN <<Instruction("JMP", U8(index), Shr8(index),
                                    Shr16(index))>>
                 ELSE <<Instruction("CAL", U8(index), Shr8(index),
                                    Shr16(index)),
                        Instruction("LDR", f.base, 0, 0)>>)
          /\ calls' = Append(calls, [name |-> f.name, base |-> f.base,
                                     nparam |-> f.nparam, at |-> Len(code),
                                     gtail |-> f.gtail, def |-> f.def])
    /\ stack' = Tail(stack)
    /\ UNCHANGED <<input, constants, functions, entry_point, func, status,
                   conds, defs>>

\* generate_expression, FunctionDefinition => expr_fundef up to the body walk
GenFunctionDefinition ==
    /\ IsGen("FunctionDefinition")
    /\ LET f == Top
           name == f.expr.name
           param == f.expr.names
           body == f.expr.a
           optimizations == OptimizationInfo(name, TRUE)
           index == NextIndex(func)
           address == Len(code)
           base == f.base + Len(param)
           vs == InsertAll(f.vars, param, f.base, Len(param))
       IN /\ func' = Insert(func, name, index)
          /\ functions' = Append(functions, address)
          /\ defs' = Insert(defs, name,
                            [address |-> address,
                             param |-> [k \in 1..Len(param) |-> vs[param[k]]]])
          /\ stack' = GenEach(body, base, vs, optimizations, TRUE)
                      \o <<[pc |-> "fundef", base |-> base]>>
                      \o Tail(stack)
    /\ UNCHANGED <<input, code, constants, entry_point, status, calls, conds>>

\* expr_fundef after the body: the result move and the return
FundefFinish ==
    /\ Running /\ Top.pc = "fundef"
    /\ code' = code \o <<Instruction("MOV", VAL, Top.base, 0),
                         Instruction("RET", 0, 0, 0)>>
    /\ stack' = Tail(stack)
    /\ UNCHANGED <<input, constants, functions, entry_point, func, status,
                   calls, conds, defs>>

\* generate_expression, VariableAssignment => expr_varass up to the walks of
\* the initialisers and the body
GenVariableAssignment ==
    /\ IsGen("VariableAssignment")
    /\ LET f == Top
           names == f.expr.names
           inits == f.expr.a
           body == f.expr.b
           n == Len(names)
           optimizations == OptimizationInfo(f.oinfo.func_name, FALSE)
           tmp_base == BodyBase(f.base, n)
       IN stack' =
            [k \in 1..n |->
                GenFrame(inits[k], f.base + k,
                         InsertAll(f.vars, names, f.base + 1, k - 1),
                         optimizations, FALSE)]
            \o GenEach(body, tmp_base,
                       InsertAll(f.vars, names, f.base + 1, n),
                       optimizations, FALSE)
            \o <<[pc |-> "varass", base |-> f.base, tmp_base |-> tmp_base]>>
            \o Tail(stack)
    /\ UNCHANGED <<input, code, constants, functions, entry_point, func,
                   status, calls, conds, defs>>

\* expr_varass after the body: the move of the result into base
VarassFinish ==
    /\ Running /\ Top.pc = "varass"
    /\ code' = Append(code, Instruction("MOV", Top.base, Top.tmp_base, 0))
    /\ stack' = Tail(stack)
    /\ UNCHANGED <<input, constants, functions, entry_point, func, status,
                   calls, conds, defs>>

\* generate_expression, Conditional => expr_conditional up to the walk of
\* the condition
GenConditional ==
    /\ IsGen("Conditional")
    /\ LET f == Top
           condition_opti == OptimizationInfo(f.oinfo.func_name, FALSE)
       IN stack' = <<GenFrame(f.expr.a[1], f.base, f.vars, condition_opti,
                              FALSE),
                     [pc |-> "cond_jtf", yes |-> f.expr.b, no |-> f.expr.c,
                      base |-> f.base, vars |-> f.vars, oinfo |-> f.oinfo,
                      gtail |-> f.gtail]>>
                   \o Tail(stack)
    /\ UNCHANGED <<input, code, constants, functions, entry_point, func,
                   status, calls, conds, defs>>

\* the walks of one branch: `for expr in &branch[..branch.len()]` with
\* condition_opti, then branch[branch.len() - 1] with oinfo
BranchFrames(branch, base, vs, oinfo, gtail) ==
    GenEach(branch, base, vs, OptimizationInfo(oinfo.func_name, FALSE), gtail)
    \o <<GenFrame(branch[Len(branch)], base, vs, oinfo, gtail)>>

\* expr_conditional after the condition: the JTF placeholder, then the walks
\* of the false branch; no[no.len() - 1] on an empty list is fatal
CondJtf ==
    /\ Running /\ Top.pc = "cond_jtf"
    /\ LET f == Top
           jmp_index == Len(code)
       IN /\ code' = Append(code, Instruction("JTF", f.base, 0, 0))
          /\ IF f.no = <<>>
             THEN /\ status' = "panic"
                  /\ stack' = stack
             ELSE /\ status' = status
                  /\ stack' = BranchFrames(f.no, f.base, f.vars, f.oinfo,
                                           f.gtail)
                              \o <<[pc |-> "cond_patch1",
                                    jmp_index |-> jmp_index,
                                    yes |-> f.yes, base |-> f.base,
                                    vars |-> f.vars, oinfo |-> f.oinfo,
                                    gtail |-> f.gtail]>>
                              \o Tail(stack)
    /\ UNCHANGED <<input, constants, functions, entry_point, func, calls,
                   conds, defs>>

\* expr_conditional after the false branch: the JTF patch, the JMF
\* placeholder, then the walks of the true branch
CondPatch1 ==
    /\ Running /\ Top.pc = "cond_patch1"
    /\ LET f == Top
           offset == JtfOffset(Len(code), f.jmp_index)
           patched == PatchJtf(code, f.jmp_index, offset)
           jmp_index == Len(code)
       IN /\ code' = Append(patched, Instruction("JMF", 0, 0, 0))
          /\ IF f.yes = <<>>
             THEN /\ status' = "panic"
                  /\ stack' = stack
             ELSE /\ status' = status
                  /\ stack' = BranchFrames(f.yes, f.base, f.vars, f.oinfo,
                                           f.gtail)
                              \o <<[pc |-> "cond_patch2",
                                    jmp_index |-> jmp_index,
                                    jtf_index |-> f.jmp_index]>>
                              \o Tail(stack)
    /\ UNCHANGED <<input, constants, functions, entry_point, func, calls,
                   conds, defs>>

\* expr_conditional after the true branch: the JMF patch
CondPatch2 ==
    /\ Running /\ Top.pc = "cond_patch2"
    /\ LET f == Top
           offset == JmfOffset(Len(code), f.jmp_index)
       IN /\ code' = PatchJmf(code, f.jmp_index, offset)
          /\ conds' = Append(conds, [p1 |-> f.jtf_index, p2 |-> f.jmp_index,
                                     end |-> Len(code)])
    /\ stack' = Tail(stack)
    /\ UNCHANGED <<input, constants, functions, entry_point, func, status,
                   calls, defs>>

\* generate between its two loops: module.entry_point = module.code.len()
SetEntryPoint ==
    /\ Running /\ Top.pc = "entry"
    /\ entry_point' = Len(code)
    /\ stack' = Tail(stack)
    /\ UNCHANGED <<input, code, constants, functions, func, status, calls,
                   conds, defs>>

\* generate after its second loop: the halt, and the module is returned
Halt ==
    /\ Running /\ Top.pc = "halt"
    /\ code' = Append(code, Instruction("HLT", 0, 0, 0))
    /\ stack' = Tail(stack)
    /\ status' = "done"
    /\ UNCHANGED <<input, constants, functions, entry_point, func, calls,
                   conds, defs>>

\* the state generate starts its first loop in, for the input `expressions`
Start(expressions) ==
    LET oinfo == OptimizationInfo("NONE", FALSE) IN
    /\ input = expressions
    /\ code = <<>>
    /\ constants = <<>>
    /\ functions = <<>>
    /\ entry_point = 0
    /\ func = EmptyMap
    /\ stack = GenEach(Filter(expressions, TRUE), VAL, EmptyMap, oinfo, FALSE)
               \o <<[pc |-> "entry"]>>
               \o GenEach(Filter(expressions, FALSE), VAL, EmptyMap, oinfo,
                          FALSE)
               \o <<[pc |-> "halt"]>>
    /\ status = "run"
    /\ calls = <<>>
    /\ conds = <<>>
    /\ defs = EmptyMap

Next ==
    \/ GenInteger
    \/ GenBinaryOp
    \/ BinaryFinish
    \/ GenUnaryOp
    \/ UnaryFinish
    \/ GenNullaryOp
    \/ GenVariable
    \/ GenFunction
    \/ CallFinish
    \/ GenFunctionDefinition
    \/ FundefFinish
    \/ GenVariableAssignment
    \/ VarassFinish
    \/ GenConditional
    \/ CondJtf
    \/ CondPatch1
    \/ CondPatch2
    \/ SetEntryPoint
    \/ Halt

-----------------------------------------------------------------------------
(* The inputs: bounded families of top-level sequences *)

\* a two-parameter function every family may call
FDef == FunctionDefinition("f", <<"x", "y">>, <<Variable("y")>>)

\* the expressions placed in the contexts below
Payloads ==
    { Integer(2), Integer(100000), Variable("x"), Variable("a"),
      Function("f", <<Integer(5), Integer(6)>>),
      Function("h", <<Integer(7)>>) }

CtxIds == 1..12

\* e in one syntactic position: operand, argument, let initialiser and
\* body, condition and branch, function body
Wrap(k, e) ==
    CASE k = 1 -> BinaryOp("+", Integer(1), e)
      [] k = 2 -> UnaryOp("write", e)
      [] k = 3 -> Function("f", <<Integer(1), e>>)
      [] k = 4 -> VariableAssignment(<<"x">>, <<e>>, <<Variable("x")>>)
      [] k = 5 -> VariableAssignment(<<"x">>, <<Integer(1)>>, <<e>>)
      [] k = 6 -> VariableAssignment(<<"x">>, <<Integer(1)>>,
                                     <<e, Variable("x")>>)
      [] k = 7 -> Conditional(e, <<Integer(2)>>, <<Integer(3)>>)
      [] k = 8 -> Conditional(NullaryOp("read"), <<e>>, <<Integer(3)>>)
      [] k = 9 -> Conditional(NullaryOp("read"), <<Integer(2)>>, <<e>>)
      [] k = 10 -> Conditional(NullaryOp("read"), <<e, Integer(2)>>,
                               <<Integer(3)>>)
      [] k = 11 -> FunctionDefinition("h", <<"a">>, <<e>>)
      [] k = 12 -> FunctionDefinition("h", <<"a">>, <<e, Variable("a")>>)

\* a payload under at most d contexts
RECURSIVE Nested(_)
Nested(d) ==
    IF d = 0 THEN Payloads
    ELSE Nested(d - 1) \cup {Wrap(k, e) : k \in CtxIds, e \in Nested(d - 1)}

\* f's definition before the expression, and after it when the expression
\* is itself a top-level definition (the order of the others is immaterial)
NestedPrograms ==
    {<<FDef, e>> : e \in Nested(MaxNest)}
    \cup {<<e, FDef>> : e \in {x \in Nested(MaxNest) :
                                 x.kind = "FunctionDefinition"}}

\* all sequences over S of length 1..n
RECURSIVE SeqsUpTo(_, _)
SeqsUpTo(S, n) ==
    IF n = 0 THEN {}
    ELSE LET shorter == SeqsUpTo(S, n - 1) IN
         {<<x>> : x \in S} \cup shorter
            \cup {Append(q, x) : q \in shorter, x \in S}

\* literals on both sides of the 16-bit boundaries
IntVals == {-100000, I16_MIN - 1, I16_MIN, -1, 0, 255, 256, I16_MAX,
            I16_MAX + 1}

LiteralPrograms == SeqsUpTo({Integer(v) : v \in IntVals}, MaxLits)

\* definitions of f and g in any order, with repetitions, then calls of both
DefPrograms ==
    {ds \o cs :
        ds \in SeqsUpTo({FunctionDefinition(n, <<>>, <<Integer(1)>>) :
                            n \in {"f", "g"}}, MaxDefs),
        cs \in {<<Function("f", <<>>), Function("g", <<>>)>>,
                <<Function("g", <<>>), Function("f", <<>>)>>}}

\* one conditional over literals, each branch of 1..MaxBranch expressions
CondPrograms ==
    {<<Conditional(Integer(1), yes, no)>> :
        yes \in SeqsUpTo({Integer(2), Integer(3)}, MaxBranch),
        no \in SeqsUpTo({Integer(2), Integer(3)}, MaxBranch)}

Programs == NestedPrograms \cup LiteralPrograms \cup DefPrograms
               \cup CondPrograms

Init == \E expressions \in Programs : Start(expressions)

Spec == Init /\ [][Next]_vars

-----------------------------------------------------------------------------
(* expr_integer on a nearly full pool.  Of the module, expr_integer reads  *)
(* only constants.len(), and it appends to code and constants; here it is  *)
(* applied, literal after literal, to a module whose pool already holds    *)
(* PoolPrefixLen entries (the code emitted before is left out).            *)

PoolPrefixLen == U16_MAX - 1

PoolVals == {1, I16_MAX + 1, -100000}

InitPool ==
    \E rest \in SeqsUpTo({Integer(v) : v \in PoolVals}, MaxPoolLits) :
        /\ input = rest
        /\ code = <<>>
        /\ constants = <<[value |-> I16_MAX + 1, count |-> PoolPrefixLen]>>
        /\ functions = <<>>
        /\ entry_point = 0
        /\ func = EmptyMap
        /\ stack = GenEach(rest, VAL, EmptyMap,
                           OptimizationInfo("NONE", FALSE), FALSE)
                   \o <<[pc |-> "halt"]>>
        /\ status = "run"
        /\ calls = <<>>
        /\ conds = <<>>
        /\ defs = EmptyMap

NextPool ==
    \/ GenInteger
    \/ Halt

SpecPool == InitPool /\ [][NextPool]_vars

-----------------------------------------------------------------------------
(* Reading the emitted code *)

\* the 16-bit value stored little-endian in (left, right)
Off16(ins) == ins.left + 256 * ins.right
\* the 24-bit value stored little-endian in (target, left, right)
Off24(ins) == ins.target + 256 * ins.left + 65536 * ins.right
\* the 16-bit two's-complement encoding of v
TwosComplement16(v) == IF v >= 0 THEN v ELSE v + 65536

\* opcode and, for a load-immediate, the encoded literal
Shape(ins) ==
    <<ins.opcode, IF ins.opcode = "LD" THEN Off16(ins) ELSE 0>>

LoadShape(e) == <<"LD", TwosComplement16(e.val)>>

\* a conditional whose condition and branch expressions are all literals
\* of the signed 16-bit range
IsLiteral(e) == e.kind = "Integer" /\ e.val >= -32768 /\ e.val <= 32767
IsLiteralConditional(e) ==
    /\ e.kind = "Conditional"
    /\ IsLiteral(e.a[1])
    /\ e.b # <<>> /\ \A i \in 1..Len(e.b) : IsLiteral(e.b[i])
    /\ e.c # <<>> /\ \A i \in 1..Len(e.c) : IsLiteral(e.c[i])

\* condition, JTF, each false-branch expression once, JMF, each
\* true-branch expression once, and the halt of generate
ConditionalShape(e) ==
    <<LoadShape(e.a[1]), <<"JTF", 0>>>>
    \o [i \in 1..Len(e.c) |-> LoadShape(e.c[i])]
    \o <<<<"JMF", 0>>>>
    \o [i \in 1..Len(e.b) |-> LoadShape(e.b[i])]
    \o <<<<"HLT", 0>>>>

-----------------------------------------------------------------------------
(* C1: lowering a conditional emits the condition's code, one JTF, the     *)
(* code of each false-branch expression exactly once in order, one JMF,    *)
(* the code of each true-branch expression exactly once in order; so       *)
(* generate([Conditional(Integer(1), [Integer(2)], [Integer(3)])]) is the  *)
(* six instructions LD 1, JTF, LD 3, JMF, LD 2, HLT.  Stated for every     *)
(* input that is one conditional over literals.                            *)
C1_ConditionalEmitsEachExpressionOnce ==
    (status = "done" /\ Len(input) = 1 /\ IsLiteralConditional(input[1]))
        => [i \in 1..Len(code) |-> Shape(code[i])] = ConditionalShape(input[1])

-----------------------------------------------------------------------------
\* the instructions of the call calls[i]
IsTailLowering(c) ==
    /\ \A k \in 1..c.nparam : code[c.at + k].opcode = "MOV"
    /\ code[c.at + c.nparam + 1].opcode = "JMP"
IsFrameLowering(c) ==
    /\ \A k \in 1..c.nparam : code[c.at + k].opcode = "MVO"
    /\ code[c.at + c.nparam + 1].opcode = "CAL"
    /\ Len(code) >= c.at + c.nparam + 2
    /\ code[c.at + c.nparam + 2] = Instruction("LDR", c.base, 0, 0)

(* C2: a call is lowered as a tail call (MOV transfers, JMP, no CAL, no    *)
(* LDR) only when it stands in tail position (final statement of a         *)
(* function body, or last expression of a branch of a conditional in tail  *)
(* position); every other call is lowered with one CAL immediately         *)
(* followed by one LDR whose target is base.                               *)
C2_TailCallOnlyInTailPosition ==
    \A i \in 1..Len(calls) :
        /\ IsTailLowering(calls[i]) => calls[i].gtail
        /\ ~calls[i].gtail => IsFrameLowering(calls[i])

-----------------------------------------------------------------------------
\* the names the top-level definitions of a sequence define
DefinedNames(exprs) ==
    {exprs[i].name : i \in {j \in 1..Len(exprs) :
                              exprs[j].kind = "FunctionDefinition"}}

\* the input contract for one node: callees defined, variables bound,
\* operators supported, branch lists non-empty
RECURSIVE WellFormed(_, _, _)
WellFormed(e, scope, fnames) ==
    LET All(es, sc) == \A i \in 1..Len(es) : WellFormed(es[i], sc, fnames)
    IN CASE e.kind = "Integer" -> TRUE
         [] e.kind = "BinaryOp" ->
              /\ BinaryOpcode(e.name) # "invalid"
              /\ All(e.a, scope) /\ All(e.b, scope)
         [] e.kind = "UnaryOp" ->
              UnaryOpcode(e.name) # "invalid" /\ All(e.a, scope)
         [] e.kind = "NullaryOp" -> NullaryOpcode(e.name) # "invalid"
         [] e.kind = "Function" -> e.name \in fnames /\ All(e.a, scope)
         [] e.kind = "FunctionDefinition" ->
              All(e.a, scope \cup {e.names[i] : i \in 1..Len(e.names)})
         [] e.kind = "VariableAssignment" ->
              /\ \A k \in 1..Len(e.a) :
                    WellFormed(e.a[k],
                               scope \cup {e.names[i] : i \in 1..(k - 1)},
                               fnames)
              /\ All(e.b, scope \cup {e.names[i] : i \in 1..Len(e.names)})
         [] e.kind = "Variable" -> e.name \in scope
         [] e.kind = "Conditional" ->
              /\ e.b # <<>> /\ e.c # <<>>
              /\ All(e.a, scope) /\ All(e.b, scope) /\ All(e.c, scope)

InputContract(exprs) ==
    \A i \in 1..Len(exprs) : WellFormed(exprs[i], {}, DefinedNames(exprs))

(* C3: for every input that satisfies the input contract, generate         *)
(* returns a Module without a fatal error, whether a callee is defined     *)
(* before or after the call site, at top level or inside another           *)
(* function's body.                                                        *)
C3_ContractInputsNeverPanic ==
    InputContract(input) => status # "panic"

-----------------------------------------------------------------------------
(* C4: lowering Integer(v) into base b emits exactly one instruction with  *)
(* target b: for -32768 <= v <= 32767 an LD whose (left, right) is the     *)
(* little-endian 16-bit two's complement of v, the pool unchanged;         *)
(* otherwise v is appended to the pool and the instruction is an LDB       *)
(* whose (left, right) is the little-endian pool length before the append. *)
C4_IntegerLowering ==
    [][IsGen("Integer") =>
        LET v == Top.expr.val
            b == Top.base
            n == Len(PoolSeq(constants))
        IN IF v >= -32768 /\ v <= 32767
           THEN /\ code' = Append(code,
                       Instruction("LD", b, TwosComplement16(v) % 256,
                                   TwosComplement16(v) \div 256))
                /\ constants' = constants
           ELSE /\ code' = Append(code,
                       Instruction("LDB", b, n % 256, n \div 256))
                /\ PoolSeq(constants') = Append(PoolSeq(constants), v)]_vars

\* the literals -1 and 32768 have been lowered, in this order
C4_Witness ==
    /\ status = "done"
    /\ input = <<Integer(-1), Integer(32768)>>
    /\ code[1] = Instruction("LD", VAL, 255, 255)
    /\ code[2] = Instruction("LDB", VAL, 0, 0)
    /\ PoolSeq(constants) = <<32768>>

-----------------------------------------------------------------------------
(* C5: in the returned Module every address in Module.functions is         *)
(* strictly less than entry_point, for every input, a definition nested    *)
(* in another expression included.                                         *)
C5_FunctionsBeforeEntryPoint ==
    status = "done" =>
        \A i \in 1..Len(functions) : functions[i] < entry_point

-----------------------------------------------------------------------------
\* a function definition below the top level
RECURSIVE HasNestedDefinition(_)
HasNestedDefinition(e) ==
    \E child \in {(e.a \o e.b \o e.c)[i] : i \in 1..Len(e.a \o e.b \o e.c)} :
        child.kind = "FunctionDefinition" \/ HasNestedDefinition(child)

(* C6: two different function names never share an index, and the index    *)
(* packed into the CAL or JMP of a call to f selects, in Module.functions, *)
(* the entry address recorded when f was defined; also when a name is      *)
(* defined more than once.  Stated for the sequences whose definitions     *)
(* are all at top level.                                                   *)
C6_FunctionIndexUniqueAndOwn ==
    (\A i \in 1..Len(input) : ~HasNestedDefinition(input[i])) =>
        /\ \A n \in DOMAIN func, m \in DOMAIN func :
              n # m => func[n] # func[m]
        /\ \A i \in 1..Len(calls) :
              LET c == calls[i]
                  index == Off24(code[c.at + c.nparam + 1])
              IN /\ index < Len(functions)
                 /\ functions[index + 1] = c.def.address

-----------------------------------------------------------------------------
(* C7: for every conditional, nested ones included, the position of its    *)
(* JTF plus the 16-bit offset in (left, right) is the index of the first   *)
(* instruction of its true-branch block (right after its JMF), and the     *)
(* position of its JMF plus the 24-bit offset in (target, left, right) is  *)
(* the index of the first instruction following its true-branch block.     *)
C7_BranchOffsetsLand ==
    \A i \in 1..Len(conds) :
        LET c == conds[i]
            jtf == code[c.p1 + 1]
            jmf == code[c.p2 + 1]
        IN /\ jtf.opcode = "JTF" /\ jmf.opcode = "JMF"
           /\ c.p1 + Off16(jtf) = c.p2 + 1
           /\ c.p2 + Off24(jmf) = c.end

\* a conditional lowered inside a branch of another, both complete
C7_Witness ==
    /\ status = "done"
    /\ \E i \in 1..Len(conds), j \in 1..Len(conds) :
          /\ conds[j].p1 < conds[i].p1
          /\ conds[i].end <= conds[j].end
          /\ conds[i].end > conds[i].p2 + 1

-----------------------------------------------------------------------------
\* an out-of-range literal is about to be lowered
IsPoolLiteral == IsGen("Integer") /\ ~(Top.expr.val \in -32768..32767)

(* C8, as claimed: the pool never holds more than 65,535 entries, and a    *)
(* fatal error on an out-of-range literal happens with 65,535 entries.     *)
C8_PoolAtMost65535 ==
    /\ PoolLen(constants) <= 65535
    /\ (status = "panic" /\ stack # <<>> /\ Top.pc = "gen"
          /\ Top.expr.kind = "Integer") => PoolLen(constants) = 65535

(* C8, amended: the pool never holds more than 65,536 entries: lowering    *)
(* an out-of-range literal when the pool holds 65,536 entries is a fatal   *)
(* error that appends nothing, and lowering one when it holds fewer        *)
(* succeeds and appends it.                                                *)
C8_PoolAtMost65536 ==
    /\ [](PoolLen(constants) <= 65536)
    /\ [][IsPoolLiteral =>
            IF PoolLen(constants) = 65536
            THEN status' = "panic" /\ constants' = constants /\ code' = code
            ELSE /\ status' = "run"
                 /\ PoolLen(constants') = PoolLen(constants) + 1
                 /\ constants'[Len(constants')].value = Top.expr.val]_vars

\* the fatal error, with the pool at 65,536 entries
C8_Witness ==
    /\ status = "panic"
    /\ PoolLen(constants) = 65536
    /\ stack # <<>> /\ Top.pc = "gen" /\ Top.expr.kind = "Integer"

-----------------------------------------------------------------------------
(* C9: the k-th parameter transfer of a call to f has as its target the    *)
(* register to which f's definition binds its k-th parameter, and as its   *)
(* source the register base + k.                                           *)
C9_TransferTargetsParameterRegister ==
    \A i \in 1..Len(calls) :
        LET c == calls[i] IN
        \A k \in 1..c.nparam :
            /\ code[c.at + k].left = c.base + k
            /\ k <= Len(c.def.param) =>
                  code[c.at + k].target = c.def.param[k]

-----------------------------------------------------------------------------
(* C10: whenever an expression is generated with base b, every variable    *)
(* visible to it is bound to a register strictly less than b.              *)
C10_VisibleVariablesBelowBase ==
    \A i \in 1..Len(stack) :
        stack[i].pc = "gen" =>
            \A v \in DOMAIN stack[i].vars : stack[i].vars[v] < stack[i].base

-----------------------------------------------------------------------------
\* a jump still carrying the zero operand bytes it was emitted with
Unpatched(ins) ==
    /\ ins.left = 0 /\ ins.right = 0
    /\ ins.opcode = "JMF" => ins.target = 0

IsJump(ins) == ins.opcode \in {"JTF", "JMF"}

\* the frames of conditionals that still owe a patch
IsPatchFrame(fr) == fr.pc \in {"cond_patch1", "cond_patch2"}

\* the opcode sitting at the position a pending patch remembers
OwedOpcode(fr) == IF fr.pc = "cond_patch1" THEN "JTF" ELSE "JMF"

\* positions of the emitted instructions that one step changes
Rewritten == {i \in 1..Len(code) : code'[i] # code[i]}

(* C11: the instruction sequence is append-only during one generate call.  *)
(* At every step the code length does not decrease and every emitted       *)
(* instruction keeps its position and its four fields, except that the     *)
(* step which finishes a branch block rewrites the operand bytes of that   *)
(* block's placeholder: at most one position per step, always one that     *)
(* already exists with at least one instruction emitted after it, holding  *)
(* a JTF or JMF whose operand bytes are still the zeros it was emitted     *)
(* with; the opcode is kept, for a JTF the target register is kept, and    *)
(* the operand bytes written are not all zero.  While generation runs,     *)
(* each pending patch remembers a distinct existing position that holds    *)
(* its still-unpatched placeholder, and every unpatched placeholder is     *)
(* remembered by a pending patch; when generate returns, no placeholder    *)
(* is left unpatched.  Hence each placeholder is rewritten exactly once.   *)
C11_AppendOnlyExceptJumpPatch ==
    /\ [][/\ Len(code') >= Len(code)
          /\ Cardinality(Rewritten) <= 1
          /\ \A i \in Rewritten :
                /\ i < Len(code)
                /\ IsJump(code[i]) /\ Unpatched(code[i])
                /\ code'[i].opcode = code[i].opcode
                /\ code[i].opcode = "JTF" => code'[i].target = code[i].target
                /\ ~Unpatched(code'[i])
                /\ IsPatchFrame(Top) /\ Top.jmp_index + 1 = i
                /\ OwedOpcode(Top) = code[i].opcode]_vars
    /\ [](status = "run" =>
            /\ \A k \in 1..Len(stack) :
                  IsPatchFrame(stack[k]) =>
                      /\ stack[k].jmp_index < Len(code)
                      /\ code[stack[k].jmp_index + 1].opcode
                            = OwedOpcode(stack[k])
                      /\ Unpatched(code[stack[k].jmp_index + 1])
                      /\ \A j \in 1..Len(stack) :
                            (j # k /\ IsPatchFrame(stack[j])) =>
                                stack[j].jmp_index # stack[k].jmp_index
            /\ \A i \in 1..Len(code) :
                  (IsJump(code[i]) /\ Unpatched(code[i])) =>
                      \E k \in 1..Len(stack) :
                          /\ IsPatchFrame(stack[k])
                          /\ stack[k].jmp_index + 1 = i)
    /\ [](status = "done" =>
            \A i \in 1..Len(code) : IsJump(code[i]) => ~Unpatched(code[i]))

\* generation still running after a patch: one conditional's JTF already
\* rewritten and followed by later instructions, while an earlier
\* conditional's placeholder is still waiting for its branch block
C11_Witness ==
    /\ status = "run"
    /\ \E i, j \in 1..Len(code) :
          /\ j < i
          /\ code[i].opcode = "JTF" /\ ~Unpatched(code[i])
          /\ IsJump(code[j]) /\ Unpatched(code[j])
          /\ Len(code) > i + 1

====
